---- MODULE Spec2Model ----
(***************************************************************************)
(* clist: an intrusive, circular, singly linked list (src/src/lib.rs).     *)
(*                                                                         *)
(* A Link holds one raw pointer, `next`.  A List holds `last`, an          *)
(* Option<Link> whose own next pointer names the tail of the ring; the     *)
(* head is the tail's next.  Links are the addresses 1..NumNodes, the null *)
(* pointer is Null.                                                        *)
(***************************************************************************)
EXTENDS Integers, Sequences, FiniteSets, TLC

\* ------------------------------------------------------------------ values
NumNodes == 3                 \* number of caller-owned Link objects
MaxCalls == 6                 \* calls logged by the queue scenario (SpecQueue)
MaxTrace == 6                 \* calls logged by the full scenario (SpecTrace)

Nodes    == 1..NumNodes       \* addresses of the caller's Links
Null     == 0                 \* core::ptr::null(), the next of Link::new()
None     == 0                 \* Option::None (List.last, and a returned Option)
Unit     == -1                \* the result of a call that returns ()
Diverges == -2                \* the call never returns (find_previous loops)

VARIABLES
    last,      \* List.last: None, or Some(Link) whose next is this address
    next,      \* next[n]: the next pointer of Link n
    members,   \* the caller's view: Links pushed and not yet handed back
    op,        \* the most recent call: [name, arg]
    ret,       \* what the most recent call returned
    pre,       \* [last, next, members] as they were when that call was made
    hist       \* the calls made so far, each with the state it left (scenarios)

vars == <<last, next, members, op, ret, pre, hist>>

\* ------------------------------------------------------------ Link, List
\* Every operation is a function of (l, nx) = (List.last, all next pointers)
\* to the record [last, next, ret] it leaves.

is_empty(l) == l = None

tail_ptr(l) == l

head_ptr(l, nx) == nx[tail_ptr(l)]

link(nx, a, b) == [nx EXCEPT ![a] = b]

push_initial_element(l, nx, e) ==
    [last |-> e, next |-> link(nx, e, e), ret |-> Unit]

\* lpush that links the new element to the tail instead of the head.
lpush_links_tail(l, nx, e) ==
    IF is_empty(l)
    THEN push_initial_element(l, nx, e)
    ELSE LET nx1 == link(nx, e, tail_ptr(l))
             nx2 == link(nx1, tail_ptr(l), e)
         IN  [last |-> l, next |-> nx2, ret |-> Unit]

lpush(l, nx, e) ==
    IF is_empty(l)
    THEN push_initial_element(l, nx, e)
    ELSE LET nx1 == link(nx, e, head_ptr(l, nx))
             nx2 == link(nx1, tail_ptr(l), e)
         IN  [last |-> l, next |-> nx2, ret |-> Unit]

\* lpop that links the tail to the head again instead of to the head's next.
lpop_links_head(l, nx) ==
    IF is_empty(l)
    THEN [last |-> l, next |-> nx, ret |-> None]
    ELSE LET head == head_ptr(l, nx)
         IN  IF tail_ptr(l) = head
             THEN [last |-> None, next |-> nx, ret |-> head]
             ELSE [last |-> l,
                   next |-> link(nx, tail_ptr(l), head_ptr(l, nx)),
                   ret  |-> head]

lpop(l, nx) ==
    IF is_empty(l)
    THEN [last |-> l, next |-> nx, ret |-> None]
    ELSE LET head == head_ptr(l, nx)
         IN  IF tail_ptr(l) = head
             THEN [last |-> None, next |-> nx, ret |-> head]
             ELSE [last |-> l,
                   next |-> link(nx, tail_ptr(l), nx[head_ptr(l, nx)]),
                   ret  |-> head]

\* lpeek that hands out the tail, the node the sentinel names.
lpeek_returns_tail(l, nx) ==
    [last |-> l, next |-> nx,
     ret  |-> IF is_empty(l) THEN None ELSE tail_ptr(l)]

lpeek(l, nx) ==
    [last |-> l, next |-> nx,
     ret  |-> IF is_empty(l) THEN None ELSE head_ptr(l, nx)]

\* rpush that leaves the sentinel where lpush left it.
rpush_keeps_last(l, nx, e) ==
    LET r == lpush(l, nx, e)
    IN  [last |-> r.last, next |-> r.next, ret |-> Unit]

rpush(l, nx, e) ==
    LET r == lpush(l, nx, e)
    IN  [last |-> e, next |-> r.next, ret |-> Unit]

rpeek(l, nx) ==
    [last |-> l, next |-> nx,
     ret  |-> IF is_empty(l) THEN None ELSE tail_ptr(l)]

\* lpoprpush that moves the sentinel past the head, to the head's next.
lpoprpush_skips_one(l, nx) ==
    IF ~is_empty(l)
    THEN [last |-> nx[head_ptr(l, nx)], next |-> nx, ret |-> Unit]
    ELSE [last |-> l, next |-> nx, ret |-> Unit]

lpoprpush(l, nx) ==
    IF ~is_empty(l)
    THEN [last |-> head_ptr(l, nx), next |-> nx, ret |-> Unit]
    ELSE [last |-> l, next |-> nx, ret |-> Unit]

\* The loop of find_previous with its two tests in the other order: back at the
\* tail is tested before the element.
RECURSIVE scan_checks_tail_first(_, _, _, _, _)
scan_checks_tail_first(nx, pos, tail, e, fuel) ==
    LET next_ptr == nx[pos]
    IN  IF next_ptr = tail THEN None
        ELSE IF next_ptr = e THEN pos
        ELSE IF fuel = 0 THEN Diverges
        ELSE scan_checks_tail_first(nx, nx[pos], tail, e, fuel - 1)

\* The loop of find_previous, at position pos.  It reads nothing it writes, so
\* if it has not returned after NumNodes hops it is at a position it has been
\* at before, and never returns.
RECURSIVE scan(_, _, _, _, _)
scan(nx, pos, tail, e, fuel) ==
    LET next_ptr == nx[pos]
    IN  IF next_ptr = e THEN pos
        ELSE IF next_ptr = tail THEN None
        ELSE IF fuel = 0 THEN Diverges
        ELSE scan(nx, nx[pos], tail, e, fuel - 1)

find_previous(l, nx, e) ==
    IF is_empty(l) THEN None
    ELSE scan(nx, tail_ptr(l), tail_ptr(l), e, NumNodes)

\* find that returns the predecessor it found instead of that node's next.
find_returns_previous(l, nx, e) ==
    LET x == find_previous(l, nx, e)
    IN  [last |-> l, next |-> nx, ret |-> x]

\* find that falls back to the element when the scan finds nothing.
find_or_element(l, nx, e) ==
    LET x == find_previous(l, nx, e)
    IN  [last |-> l, next |-> nx,
         ret  |-> IF x \in Nodes THEN nx[x] ELSE IF x = None THEN e ELSE x]

find(l, nx, e) ==
    LET x == find_previous(l, nx, e)
    IN  [last |-> l, next |-> nx,
         ret  |-> IF x \in Nodes THEN nx[x] ELSE x]

\* remove without the branch for the head.
remove_always_scans(l, nx, e) ==
    IF is_empty(l)
    THEN [last |-> l, next |-> nx, ret |-> None]
    ELSE LET x == find_previous(l, nx, e)
         IN  IF x \in Nodes
             THEN [last |-> l, next |-> link(nx, x, nx[nx[x]]), ret |-> e]
             ELSE [last |-> l, next |-> nx, ret |-> x]

remove(l, nx, e) ==
    IF is_empty(l)
    THEN [last |-> l, next |-> nx, ret |-> None]
    ELSE IF head_ptr(l, nx) = e
    THEN lpop(l, nx)
    ELSE LET x == find_previous(l, nx, e)
         IN  IF x \in Nodes
             THEN [last |-> l, next |-> link(nx, x, nx[nx[x]]), ret |-> e]
             ELSE [last |-> l, next |-> nx, ret |-> x]

rpop(l, nx) ==
    IF is_empty(l)
    THEN [last |-> l, next |-> nx, ret |-> None]
    ELSE remove(l, nx, tail_ptr(l))

\* ------------------------------------------------------- reading the ring
\* The Links met from pos by following next, up to and including stop; the walk
\* gives up after fuel hops (a ring that never gets to stop).
RECURSIVE walk(_, _, _, _)
walk(nx, pos, stop, fuel) ==
    IF pos = stop \/ fuel = 0 \/ pos = Null
    THEN <<pos>>
    ELSE <<pos>> \o walk(nx, nx[pos], stop, fuel - 1)

\* Head-to-tail order of the list (l, nx): from the head to the tail named by
\* the sentinel.
Order(l, nx) ==
    IF is_empty(l) THEN <<>> ELSE walk(nx, head_ptr(l, nx), tail_ptr(l), NumNodes)

Range(s) == {s[i] : i \in 1..Len(s)}

\* The number of hops from the head back to the head (NumNodes + 1: never back).
RECURSIVE hops(_, _, _, _)
hops(nx, pos, head, fuel) ==
    IF fuel = 0 \/ pos = Null THEN NumNodes + 1
    ELSE IF nx[pos] = head THEN 1
    ELSE LET h == hops(nx, nx[pos], head, fuel - 1)
         IN  IF h > NumNodes THEN h ELSE 1 + h

\* The list (l, nx) is the ring of exactly the Links in m, the sentinel naming
\* its tail.
WellFormed(l, nx, m) ==
    IF m = {} THEN is_empty(l)
    ELSE /\ ~is_empty(l)
         /\ Len(Order(l, nx)) = Cardinality(m)
         /\ Range(Order(l, nx)) = m
         /\ Order(l, nx)[Len(Order(l, nx))] = tail_ptr(l)

CurOrder == Order(last, next)
PreOrder == Order(pre.last, pre.next)
CurWellFormed == WellFormed(last, next, members)
PreWellFormed == WellFormed(pre.last, pre.next, pre.members)

Reverse(s) == [i \in 1..Len(s) |-> s[Len(s) + 1 - i]]
Rotate(s) == IF s = <<>> THEN s ELSE Append(Tail(s), Head(s))
Without(s, e) == SelectSeq(s, LAMBDA x : x # e)


\* ------------------------------------------------------------- the caller
\* A call never returns once find_previous loops: nothing runs after it.
hung == ret = Diverges

Init ==
    /\ last = None
    /\ next = [n \in Nodes |-> Null]
    /\ members = {}
    /\ op = [name |-> "new", arg |-> None]
    /\ ret = Unit
    /\ pre = [last |-> None, next |-> [n \in Nodes |-> Null], members |-> {}]
    /\ hist = <<>>

\* One call: r is what the operation leaves, given the present state.
Call(name, arg, r) ==
    /\ ~hung
    /\ last' = r.last
    /\ next' = r.next
    /\ ret' = r.ret
    /\ op' = [name |-> name, arg |-> arg]
    /\ pre' = [last |-> last, next |-> next, members |-> members]

\* A removal hands the returned Link back to the caller.
Returned(r) == members' = IF r.ret \in Nodes THEN members \ {r.ret} ELSE members

CallLpush(e) ==
    /\ e \notin members
    /\ Call("lpush", e, lpush(last, next, e))
    /\ members' = members \cup {e}

CallRpush(e) ==
    /\ e \notin members
    /\ Call("rpush", e, rpush(last, next, e))
    /\ members' = members \cup {e}

CallLpop ==
    /\ Call("lpop", None, lpop(last, next))
    /\ Returned(lpop(last, next))

CallRpop ==
    /\ Call("rpop", None, rpop(last, next))
    /\ Returned(rpop(last, next))

CallRemove(e) ==
    /\ e \in members
    /\ Call("remove", e, remove(last, next, e))
    /\ Returned(remove(last, next, e))

CallLpoprpush ==
    /\ Call("lpoprpush", None, lpoprpush(last, next))
    /\ UNCHANGED members

CallFind(e) ==
    /\ Call("find", e, find(last, next, e))
    /\ UNCHANGED members

CallLpeek ==
    /\ Call("lpeek", None, lpeek(last, next))
    /\ UNCHANGED members

CallRpeek ==
    /\ Call("rpeek", None, rpeek(last, next))
    /\ UNCHANGED members

\* --------------------------------------------- Spec: every call, any order
Lpush(e)  == CallLpush(e)  /\ UNCHANGED hist
Rpush(e)  == CallRpush(e)  /\ UNCHANGED hist
Lpop      == CallLpop      /\ UNCHANGED hist
Rpop      == CallRpop      /\ UNCHANGED hist
Remove(e) == CallRemove(e) /\ UNCHANGED hist
Lpoprpush == CallLpoprpush /\ UNCHANGED hist
Find(e)   == CallFind(e)   /\ UNCHANGED hist
Lpeek     == CallLpeek     /\ UNCHANGED hist
Rpeek     == CallRpeek     /\ UNCHANGED hist

Next ==
    \/ \E e \in Nodes : Lpush(e)
    \/ \E e \in Nodes : Rpush(e)
    \/ Lpop
    \/ Rpop
    \/ \E e \in Nodes : Remove(e)
    \/ Lpoprpush
    \/ \E e \in Nodes : Find(e)
    \/ Lpeek
    \/ Rpeek

Spec == Init /\ [][Next]_vars

\* SpecAny: every call of Spec, and remove of a node that is not a member.
CallRemoveAbsent(e) ==
    /\ e \notin members
    /\ Call("remove", e, remove(last, next, e))
    /\ Returned(remove(last, next, e))

RemoveAbsent(e) == CallRemoveAbsent(e) /\ UNCHANGED hist

NextAny ==
    \/ \E e \in Nodes : Lpush(e)
    \/ \E e \in Nodes : Rpush(e)
    \/ Lpop
    \/ Rpop
    \/ \E e \in Nodes : Remove(e)
    \/ \E e \in Nodes : RemoveAbsent(e)
    \/ Lpoprpush
    \/ \E e \in Nodes : Find(e)
    \/ Lpeek
    \/ Rpeek

SpecAny == Init /\ [][NextAny]_vars

\* ------------------------------------------------ scenarios: a logged run
\* The call just made, with the state it left, is appended to hist.
Logged ==
    hist' = Append(hist, [name |-> op'.name, arg |-> op'.arg, ret |-> ret',
                          last |-> last', next |-> next'])

\* SpecQueue: runs of at most MaxCalls calls of lpush, rpush, lpop, lpoprpush.
QLpush(e)  == Len(hist) < MaxCalls /\ CallLpush(e)  /\ Logged
QRpush(e)  == Len(hist) < MaxCalls /\ CallRpush(e)  /\ Logged
QLpop      == Len(hist) < MaxCalls /\ CallLpop      /\ Logged
QLpoprpush == Len(hist) < MaxCalls /\ CallLpoprpush /\ Logged

NextQueue ==
    \/ \E e \in Nodes : QLpush(e)
    \/ \E e \in Nodes : QRpush(e)
    \/ QLpop
    \/ QLpoprpush

SpecQueue == Init /\ [][NextQueue]_vars

\* SpecTrace: runs of at most MaxTrace calls of every mutating operation.
TLpush(e)  == Len(hist) < MaxTrace /\ CallLpush(e)  /\ Logged
TRpush(e)  == Len(hist) < MaxTrace /\ CallRpush(e)  /\ Logged
TLpop      == Len(hist) < MaxTrace /\ CallLpop      /\ Logged
TRpop      == Len(hist) < MaxTrace /\ CallRpop      /\ Logged
TRemove(e) == Len(hist) < MaxTrace /\ CallRemove(e) /\ Logged
TLpoprpush == Len(hist) < MaxTrace /\ CallLpoprpush /\ Logged

NextTrace ==
    \/ \E e \in Nodes : TLpush(e)
    \/ \E e \in Nodes : TRpush(e)
    \/ TLpop
    \/ TRpop
    \/ \E e \in Nodes : TRemove(e)
    \/ TLpoprpush

SpecTrace == Init /\ [][NextTrace]_vars

\* SpecPeek: runs of at most MaxCalls calls of lpush, lpeek and rpeek.
PLpush(e) == Len(hist) < MaxCalls /\ CallLpush(e) /\ Logged
PLpeek    == Len(hist) < MaxCalls /\ CallLpeek    /\ Logged
PRpeek    == Len(hist) < MaxCalls /\ CallRpeek    /\ Logged

NextPeek ==
    \/ \E e \in Nodes : PLpush(e)
    \/ PLpeek
    \/ PRpeek

SpecPeek == Init /\ [][NextPeek]_vars

\* The state a logged run was in after its first i calls (i = 0: the new list).
LastAt(i) == IF i = 0 THEN None ELSE hist[i].last
NextAt(i) == IF i = 0 THEN [n \in Nodes |-> Null] ELSE hist[i].next
OrderAt(i) == Order(LastAt(i), NextAt(i))

\* The run so far is k calls of `push` followed only by calls of `pop`.
PushesThenPops(push, pop, k) ==
    /\ k \in 1..Len(hist)
    /\ \A i \in 1..Len(hist) : hist[i].name = IF i <= k THEN push ELSE pop

\* The last n calls of the run were all calls of `name`.
LastCallsAre(name, n) ==
    /\ n \in 1..Len(hist)
    /\ \A i \in (Len(hist) - n + 1)..Len(hist) : hist[i].name = name

\* ================================================================ claims
Cur == [last |-> last, next |-> next, ret |-> ret]

\* C1: LIFO order of lpush/lpop.  A run of k lpush calls on the new list
\* followed by lpop calls: the i-th pop (i <= k) returns the node of the
\* (k+1-i)-th push, the list is non-empty before it and is empty after it
\* exactly when i = k; every later pop returns absent and leaves the list empty.
C1_LifoOrder ==
    \A k \in 1..Len(hist) :
        PushesThenPops("lpush", "lpop", k) =>
            \A i \in 1..(Len(hist) - k) :
                IF i <= k
                THEN /\ hist[k + i].ret = hist[k + 1 - i].arg
                     /\ ~is_empty(LastAt(k + i - 1))
                     /\ is_empty(LastAt(k + i)) <=> (i = k)
                ELSE /\ hist[k + i].ret = None
                     /\ is_empty(LastAt(k + i))

\* Two nodes pushed with lpush, popped in reverse, and a further pop is absent.
C1_Witness ==
    /\ PushesThenPops("lpush", "lpop", 2)
    /\ Len(hist) = 5
    /\ hist[3].ret = hist[2].arg /\ hist[4].ret = hist[1].arg
    /\ ret = None

\* Three nodes pushed with lpush and popped in reverse, the list now empty.
C1_WitnessThree ==
    /\ PushesThenPops("lpush", "lpop", 3)
    /\ Len(hist) = 6
    /\ <<hist[4].ret, hist[5].ret, hist[6].ret>> = <<hist[3].arg, hist[2].arg, hist[1].arg>>
    /\ is_empty(last)

\* C2: rpush appends.  In a state reached by lpush/rpush/lpop/lpoprpush calls
\* with head-to-tail order S, rpush(e) leaves the order Append(S, e): e is the
\* tail (what rpeek returns) and the head is unchanged when S is not empty.
\* And a run of k rpush calls on the new list followed by lpop calls returns
\* the nodes in insertion order.
C2_RpushAppends ==
    /\ op.name = "rpush" =>
          /\ CurOrder = Append(PreOrder, op.arg)
          /\ rpeek(last, next).ret = op.arg
          /\ PreOrder # <<>> => lpeek(last, next).ret = Head(PreOrder)
    /\ \A k \in 1..Len(hist) :
          PushesThenPops("rpush", "lpop", k) =>
              \A i \in 1..(Len(hist) - k) :
                  hist[k + i].ret = IF i <= k THEN hist[i].arg ELSE None

\* rpush onto a two-element list, in a run that has popped and rotated before.
C2_Witness ==
    /\ op.name = "rpush"
    /\ Len(PreOrder) = 2
    /\ \E i, j \in 1..Len(hist) : hist[i].name = "lpop" /\ hist[j].name = "lpoprpush"

\* C3: rpush/rpop round trip.  When rpush(x) on a list of k >= 1 elements is
\* followed at once by rpop(), rpop returns x and the head, the tail named by
\* the sentinel and the head-to-tail order are what they were before the rpush.
C3_RpushRpopRoundTrip ==
    LET n == Len(hist)
    IN  (/\ n >= 3
         /\ hist[n].name = "rpop"
         /\ hist[n - 1].name = "rpush"
         /\ WellFormed(LastAt(n - 2), NextAt(n - 2), pre.members \ {hist[n - 1].arg})
         /\ Len(OrderAt(n - 2)) >= 1)
        => /\ ret = hist[n - 1].arg
           /\ rpeek(last, next).ret = LastAt(n - 2)
           /\ lpeek(last, next).ret = Head(OrderAt(n - 2))
           /\ CurOrder = OrderAt(n - 2)

\* C4: the deque scenario.  rpush(A), rpush(B), rpush(C) on the new list give
\* the order [A,B,C]; rpop returns C and leaves [A,B]; lpop returns A and
\* leaves [B]; rpop returns B and leaves the list empty; any further lpop or
\* rpop returns absent.
C4_DequeScenario ==
    LET n == Len(hist)
        Names(s) == \A i \in 1..Len(s) : i <= n => hist[i].name = s[i]
        script == <<"rpush", "rpush", "rpush", "rpop", "lpop", "rpop">>
        A == hist[1].arg
        B == hist[2].arg
        C == hist[3].arg
    IN  (n >= 3 /\ Names(script)) =>
           /\ OrderAt(3) = <<A, B, C>>
           /\ n >= 4 => hist[4].ret = C /\ OrderAt(4) = <<A, B>>
           /\ n >= 5 => hist[5].ret = A /\ OrderAt(5) = <<B>>
           /\ n >= 6 => hist[6].ret = B /\ is_empty(LastAt(6))
           /\ \A i \in 7..n :
                 hist[i].name \in {"lpop", "rpop"} => hist[i].ret = None

\* C5: the sentinel names the tail.  Whenever the list is not empty, the node
\* the sentinel names is a current member, it is the last node of the
\* head-to-tail order of the members, and its next is the head.
C5_SentinelNamesTail ==
    ~is_empty(last) =>
        /\ tail_ptr(last) \in members
        /\ Range(CurOrder) = members
        /\ CurOrder[Len(CurOrder)] = tail_ptr(last)
        /\ next[tail_ptr(last)] = Head(CurOrder)

\* C6: the ring invariant.  With n >= 1 current members, following next from
\* the head is back at the head after exactly n hops, having met exactly the
\* n members; a single member points to itself and is named by the sentinel.
C6_RingInvariant ==
    members # {} =>
        /\ ~is_empty(last)
        /\ hops(next, head_ptr(last, next), head_ptr(last, next), NumNodes)
              = Cardinality(members)
        /\ Range(walk(next, head_ptr(last, next), Null, Cardinality(members) - 1))
              = members
        /\ \A m \in Nodes : members = {m} => next[m] = m /\ tail_ptr(last) = m

\* C7: is_empty tracks membership.  is_empty() is true exactly when no node is
\* a current member.
C7_IsEmptyTracksMembers ==
    is_empty(last) <=> (members = {})

\* C8: the rotation law.  On a list of n >= 2 elements in the order
\* [h0, h1, ..., h(n-1)] one lpoprpush() leaves [h1, ..., h(n-1), h0]; n of
\* them in a row leave the order, head and tail as they were; and lpoprpush
\* never changes which nodes, or how many, are in the list.
C8_RotationLaw ==
    /\ op.name = "lpoprpush" =>
          /\ members = pre.members
          /\ Range(CurOrder) = Range(PreOrder)
          /\ Len(CurOrder) = Len(PreOrder)
          /\ Len(PreOrder) >= 2 => CurOrder = Rotate(PreOrder)
    /\ \A n \in 2..Len(hist) :
          (LastCallsAre("lpoprpush", n) /\ Len(OrderAt(Len(hist) - n)) = n) =>
              /\ CurOrder = OrderAt(Len(hist) - n)
              /\ last = LastAt(Len(hist) - n)
              /\ head_ptr(last, next) = Head(OrderAt(Len(hist) - n))

\* Three rotations in a row of a list of three.
C8_Witness ==
    /\ LastCallsAre("lpoprpush", 3)
    /\ Len(OrderAt(Len(hist) - 3)) = 3
    /\ Len(CurOrder) = 3

\* C9: what find returns, on a well-formed list: absent for a node that was
\* never inserted (and for any other node that is not a member), and for a node
\* that is present the node itself.
C9_FindReturnsElement ==
    (op.name = "find" /\ PreWellFormed) =>
        /\ pre.next[op.arg] = Null => ret = None
        /\ op.arg \notin pre.members => ret = None
        /\ op.arg \in pre.members => ret = op.arg
        /\ last = pre.last /\ next = pre.next

\* find of a member that is not its own successor.
C9_Witness ==
    /\ op.name = "find"
    /\ PreWellFormed
    /\ op.arg \in pre.members
    /\ pre.next[op.arg] # op.arg

\* find of a node that was never inserted, on a non-empty list.
C9_WitnessAbsent ==
    /\ op.name = "find"
    /\ PreWellFormed
    /\ pre.members # {}
    /\ pre.next[op.arg] = Null

\* C9 as claimed: absent for a node never inserted, and for a node that is
\* present its ring successor, the node its next names.
C9_FindReturnsSuccessor ==
    (op.name = "find" /\ PreWellFormed) =>
        /\ pre.next[op.arg] = Null => ret = None
        /\ op.arg \in pre.members => ret = pre.next[op.arg]

\* C10: remove at the ends equals the pops.  From a non-empty well-formed list,
\* remove(head) returns what lpop() returns and leaves the sentinel and every
\* next as lpop() leaves them, and remove(tail) does as rpop() does.
C10_RemoveAtEnds ==
    (PreWellFormed /\ pre.members # {}) =>
        /\ (op.name = "remove" /\ op.arg = head_ptr(pre.last, pre.next)) =>
              Cur = lpop(pre.last, pre.next)
        /\ (op.name = "remove" /\ op.arg = tail_ptr(pre.last)) =>
              Cur = rpop(pre.last, pre.next)
        /\ op.name = "lpop" =>
              Cur = remove(pre.last, pre.next, head_ptr(pre.last, pre.next))
        /\ op.name = "rpop" =>
              Cur = remove(pre.last, pre.next, tail_ptr(pre.last))

\* remove of the only member, which is the head and the tail.
C10_Witness ==
    /\ op.name = "remove"
    /\ PreWellFormed
    /\ pre.members = {op.arg}
    /\ is_empty(last)

\* remove of the tail of a list of three.
C10_WitnessTail ==
    /\ op.name = "remove"
    /\ PreWellFormed
    /\ Cardinality(pre.members) = 3
    /\ op.arg = tail_ptr(pre.last)
    /\ ret = op.arg

\* Sanity of the model: the four queue operations keep the list well formed.
QueueWellFormed == CurWellFormed
\* The nodes pushed by the lpush calls among the first i calls of the run, in
\* the order they were pushed.
PushedBy(i) ==
    LET s == SelectSeq(SubSeq(hist, 1, i), LAMBDA h : h.name = "lpush")
    IN  [j \in 1..Len(s) |-> s[j].arg]

\* C11: peeks after pushes at the head.  After k >= 1 lpush calls on the new
\* list the head-to-tail order is the reverse of the insertion order, lpeek()
\* returns the node pushed last and rpeek() the node pushed first; and neither
\* peek changes the sentinel or any next.
C11_PeeksAfterLpush ==
    \A i \in 1..Len(hist) :
        /\ hist[i].name \in {"lpeek", "rpeek"} =>
              LastAt(i) = LastAt(i - 1) /\ NextAt(i) = NextAt(i - 1)
        /\ Len(PushedBy(i)) >= 1 =>
              /\ OrderAt(i) = Reverse(PushedBy(i))
              /\ hist[i].name = "lpeek" => hist[i].ret = PushedBy(i)[Len(PushedBy(i))]
              /\ hist[i].name = "rpeek" => hist[i].ret = PushedBy(i)[1]

\* lpush(a); lpush(b); lpush(c); lpeek() = c; rpeek() = a.
C11_Witness ==
    /\ Len(hist) = 5
    /\ \A i \in 1..3 : hist[i].name = "lpush"
    /\ hist[4].name = "lpeek" /\ hist[4].ret = hist[3].arg
    /\ hist[5].name = "rpeek" /\ hist[5].ret = hist[1].arg
    /\ CurOrder = <<hist[3].arg, hist[2].arg, hist[1].arg>>

\* C12: outcomes on the empty list.  On an empty list lpop, rpop, lpeek,
\* rpeek, find(e) and remove(e), for any node e, return absent and lpoprpush
\* does nothing; after each of them the list is still empty and no next has
\* changed.
C12_EmptyListOutcomes ==
    (is_empty(pre.last) /\ op.name \notin {"new", "lpush", "rpush"}) =>
        /\ ret = IF op.name = "lpoprpush" THEN Unit ELSE None
        /\ is_empty(last)
        /\ next = pre.next

\* remove of a node on a list that has held nodes and is empty again.
C12_Witness ==
    /\ op.name = "remove"
    /\ is_empty(pre.last)
    /\ pre.next[op.arg] # Null
    /\ ret = None

\* C13: every operation terminates.  In every state reached by calls that
\* respect the caller contract, each call runs to completion: the scan of
\* find_previous finds the element or gets back to the tail.
C13_EveryCallReturns ==
    ret # Diverges

\* C14: remove of a member that is not the head.  On a well-formed list with
\* head-to-tail order S and a member e that is not the head (e may be the
\* tail), remove(e) returns e, sets the next of e's predecessor to e's
\* successor, and leaves the order S without e: same head, the others in the
\* same order, the tail being the last of them.
C14_RemoveNonHead ==
    (/\ op.name = "remove"
     /\ PreWellFormed
     /\ op.arg \in pre.members
     /\ op.arg # head_ptr(pre.last, pre.next))
    => LET p == CHOOSE n \in pre.members : pre.next[n] = op.arg
           S == Without(PreOrder, op.arg)
       IN  /\ ret = op.arg
           /\ next[p] = pre.next[op.arg]
           /\ CurOrder = S
           /\ head_ptr(last, next) = Head(PreOrder)
           /\ tail_ptr(last) = S[Len(S)]

\* C15: remove reports absence only for a node that is not a member.  On a
\* non-empty well-formed list remove(e) returns e for every member e, and for
\* a node that is not a member it returns absent and leaves the sentinel and
\* every next unchanged.
C15_RemoveAbsentOnlyForNonMember ==
    (op.name = "remove" /\ PreWellFormed /\ pre.members # {}) =>
        IF op.arg \in pre.members
        THEN ret = op.arg
        ELSE ret = None /\ last = pre.last /\ next = pre.next

\* remove of a node that has been in the list and is not a member now.
C15_Witness ==
    /\ op.name = "remove"
    /\ PreWellFormed
    /\ Cardinality(pre.members) = 2
    /\ op.arg \notin pre.members
    /\ pre.next[op.arg] # Null
    /\ ret = None

\* remove of the tail of a list of three.
C15_WitnessMember ==
    /\ op.name = "remove"
    /\ PreWellFormed
    /\ Cardinality(pre.members) = 3
    /\ op.arg = tail_ptr(pre.last)
    /\ ret = op.arg

C17_LpopEffect ==
    (op.name = "lpop" /\ PreWellFormed /\ pre.members # {}) =>
        /\ ret = head_ptr(pre.last, pre.next)
        /\ next[ret] = pre.next[ret]
        /\ IF Cardinality(pre.members) = 1
           THEN is_empty(last) /\ next = pre.next
           ELSE /\ last = pre.last
                /\ next[tail_ptr(pre.last)] = pre.next[head_ptr(pre.last, pre.next)]
                /\ \A n \in Nodes \ {tail_ptr(pre.last)} : next[n] = pre.next[n]

\* lpop of a list of three: the popped head still points at the new head.
C17_Witness ==
    /\ op.name = "lpop"
    /\ PreWellFormed
    /\ Cardinality(pre.members) = 3
    /\ next[ret] = head_ptr(last, next)
    /\ ret \notin members

\* lpop of the only member.
C17_WitnessSingle ==
    /\ op.name = "lpop"
    /\ PreWellFormed
    /\ Cardinality(pre.members) = 1
    /\ is_empty(last)

\* C18: frame of rotation.  lpoprpush() on a non-empty list changes only the
\* sentinel, which afterwards names the old head, and no next; on an empty
\* list and on a list of one member it leaves the whole state unchanged.
C18_LpoprpushFrame ==
    op.name = "lpoprpush" =>
        /\ next = pre.next
        /\ ~is_empty(pre.last) => tail_ptr(last) = head_ptr(pre.last, pre.next)
        /\ is_empty(pre.last) => last = pre.last
        /\ (PreWellFormed /\ Cardinality(pre.members) = 1) => last = pre.last

\* A rotation of a list of three, which moves the sentinel.
C18_Witness ==
    /\ op.name = "lpoprpush"
    /\ PreWellFormed
    /\ Cardinality(pre.members) = 3
    /\ last # pre.last
    /\ last = head_ptr(pre.last, pre.next)

\* A rotation of a list of one.
C18_WitnessSingle ==
    /\ op.name = "lpoprpush"
    /\ PreWellFormed
    /\ Cardinality(pre.members) = 1
    /\ last = pre.last

\* C19: removed nodes can be reused.  A node that a removal has returned is
\* not a member, and pushing it again, as it is, leaves the list with exactly
\* the members that remained plus that node, at the head (lpush) or at the
\* tail (rpush), the others in the order they were in.
C19_RemovedNodeReuse ==
    (/\ op.name \in {"lpush", "rpush"}
     /\ pre.next[op.arg] # Null
     /\ op.arg \notin pre.members)
    => /\ members = pre.members \cup {op.arg}
       /\ Range(CurOrder) = members
       /\ Len(CurOrder) = Cardinality(members)
       /\ op.name = "lpush" => Head(CurOrder) = op.arg
       /\ op.name = "rpush" => CurOrder[Len(CurOrder)] = op.arg
       /\ Without(CurOrder, op.arg) = PreOrder

====
